---- MODULE Spec2Model ----
(***************************************************************************)
(* ScanMTG (WanderlanLima/MTGSCAN): the capture / recognize / look up /    *)
(* localize / translate pipeline of the App component, in the ten variants *)
(* of the screen that the repository holds:                                *)
(*                                                                         *)
(*   p000   src/unnamed/part_000            two zones, worker per scan     *)
(*   p001a  src/unnamed/part_001:1-262      two zones, photo file          *)
(*   p001b  src/unnamed/part_001:264-612    title zone, photo file, OpenCV *)
(*   p002   src/unnamed/part_002            full frame, autocomplete       *)
(*   p003   src/unnamed/part_003            title zone, worker per scan    *)
(*   p004a  src/unnamed/part_004:1-303      title zone, confidence gate    *)
(*   p004b  src/unnamed/part_004:305-675    two zones, shared worker       *)
(*   p005   src/unnamed/part_005            full frame, three thresholds   *)
(*   p006   src/unnamed/part_006            two zones, shared worker       *)
(*   vite   src/vite.config.ts:35-390       full frame, direct fuzzy       *)
(*                                                                         *)
(* The state is the component's React state (result, loading, error,       *)
(* isScanning, workerReady/workerRef, capturedImage) plus the asynchronous *)
(* handler invocations that are suspended at an await: each one is a task  *)
(* holding the locals of its closure and the remote call it waits for.     *)
(* One action is one run of handler code between two awaits: a click runs  *)
(* the handler up to its first await, a response resumes it up to the      *)
(* next.  The remote services (OCR, catalog, translation) answer           *)
(* nondeterministically.  Recognized text is a sequence of one-character   *)
(* strings, and cleaning / pattern matching are computed on it.            *)
(*                                                                         *)
(* Not modelled: debugText, the OCR preview, lens switching and the        *)
(* flashlight (diagnostics and camera controls that no handler of the      *)
(* pipeline reads).  The crop geometry and the binarization are followed   *)
(* apart from the pipeline, on one pixel of a frame of a given size.       *)
(***************************************************************************)
EXTENDS Integers, Sequences, FiniteSets, Bags, TLC

(***************************************************************************)
(* Bounds of the model.                                                    *)
(***************************************************************************)
\* Handler invocations that may be suspended at the same time.
MaxTasks == 2

(***************************************************************************)
(* Characters and strings.  A string is a sequence of one-character        *)
(* strings.                                                                *)
(***************************************************************************)
Upper == {"B", "D", "I", "M", "S"}
Lower == {"b", "d", "i", "m", "s", "o", "l", "t", "k", "x", "q", "z"}
Digit == {"1", "2", "4", "5"}
Space == {" ", "\n"}
Punct == {"!", ",", "?"}
Letter == Upper \cup Lower
AlNum == Letter \cup Digit

toUpperChar(c) ==
  CASE c = "b" -> "B" [] c = "d" -> "D" [] c = "i" -> "I" [] c = "m" -> "M"
    [] c = "s" -> "S" [] OTHER -> c

toLowerChar(c) ==
  CASE c = "B" -> "b" [] c = "D" -> "d" [] c = "I" -> "i" [] c = "M" -> "m"
    [] c = "S" -> "s" [] OTHER -> c

toUpperCase(s) == [i \in 1..Len(s) |-> toUpperChar(s[i])]
toLowerCase(s) == [i \in 1..Len(s) |-> toLowerChar(s[i])]

\* String.prototype.trim: white space removed at both ends.
RECURSIVE TrimLeft(_)
TrimLeft(s) == IF s # <<>> /\ Head(s) \in Space THEN TrimLeft(Tail(s)) ELSE s

RECURSIVE TrimRight(_)
TrimRight(s) ==
  IF s # <<>> /\ s[Len(s)] \in Space THEN TrimRight(SubSeq(s, 1, Len(s) - 1)) ELSE s

trim(s) == TrimRight(TrimLeft(s))

\* s.replace(/[^...]/g, rep): every character outside `keep` becomes `rep`
\* (a string, possibly empty).
RECURSIVE replaceOutside(_, _, _)
replaceOutside(s, keep, rep) ==
  IF s = <<>> THEN <<>>
  ELSE (IF Head(s) \in keep THEN <<Head(s)>> ELSE rep)
         \o replaceOutside(Tail(s), keep, rep)

\* s.replace(/\s+/g, ' '): every run of white space becomes one blank.
RECURSIVE collapseSpaces(_)
collapseSpaces(s) ==
  IF s = <<>> THEN <<>>
  ELSE IF Head(s) \in Space
       THEN <<" ">> \o collapseSpaces(TrimLeft(s))
       ELSE <<Head(s)>> \o collapseSpaces(Tail(s))

\* text.split('\n')
RECURSIVE split(_)
split(s) ==
  IF \A i \in 1..Len(s) : s[i] # "\n" THEN <<s>>
  ELSE LET k == CHOOSE i \in 1..Len(s) : s[i] = "\n" /\ \A j \in 1..(i - 1) : s[j] # "\n"
       IN <<SubSeq(s, 1, k - 1)>> \o split(SubSeq(s, k + 1, Len(s)))

\* Array.prototype.filter on a sequence of strings: those longer than n.
RECURSIVE longerThan(_, _)
longerThan(ls, n) ==
  IF ls = <<>> THEN <<>>
  ELSE (IF Len(Head(ls)) > n THEN <<Head(ls)>> ELSE <<>>) \o longerThan(Tail(ls), n)

\* Array.prototype.slice(0, n)
slice(ls, n) == SubSeq(ls, 1, IF Len(ls) < n THEN Len(ls) ELSE n)

(***************************************************************************)
(* Collector-info extraction: String.prototype.match with the pattern      *)
(* /(CLS{lo,hi})\s*(\d+)/i.  The leftmost start wins; at a start the first *)
(* group is greedy and gives characters back until one or more digits      *)
(* follow the optional white space.                                        *)
(***************************************************************************)
NoMatch == [ok |-> FALSE, set |-> <<>>, num |-> <<>>]

RECURSIVE RunLen(_, _, _)
RunLen(s, p, cls) ==
  IF p <= Len(s) /\ s[p] \in cls THEN 1 + RunLen(s, p + 1, cls) ELSE 0

\* The pattern anchored at p with a first group of exactly n characters.
MatchesAt(s, p, n, cls) ==
  /\ n <= RunLen(s, p, cls)
  /\ RunLen(s, p + n + RunLen(s, p + n, Space), Digit) >= 1

GroupsAt(s, p, n) ==
  LET w == RunLen(s, p + n, Space)
      d == RunLen(s, p + n + w, Digit)
  IN [ok |-> TRUE,
      set |-> SubSeq(s, p, p + n - 1),
      num |-> SubSeq(s, p + n + w, p + n + w + d - 1)]

regexMatch(s, cls, lo, hi) ==
  LET Ns(p) == {n \in lo..hi : MatchesAt(s, p, n, cls)}
      Ps == {p \in 1..Len(s) : Ns(p) # {}}
  IN IF Ps = {} THEN NoMatch
     ELSE LET p == CHOOSE x \in Ps : \A y \in Ps : x <= y
              n == CHOOSE x \in Ns(p) : \A y \in Ns(p) : y <= x
          IN GroupsAt(s, p, n)

\* Upper end of an open quantifier {3,}: no recognized text is longer.
Unbounded(s) == Len(s) + 3

(***************************************************************************)
(* The variants of the screen.                                             *)
(***************************************************************************)
Variants ==
  {"p000", "p001a", "p001b", "p002", "p003", "p004a", "p004b", "p005", "p006", "vite"}

\* Title band plus collector-info band.
TwoZone == {"p000", "p001a", "p004b", "p006"}
\* Title band only.
TitleZone == {"p001b", "p003", "p004a"}
\* Whole frame, candidate lines.
FullFrame == {"p002", "p005", "vite"}
\* The image comes from a photo file, not from a live camera frame.
FileInput == {"p001a", "p001b"}
\* The OCR worker is created once, when the component mounts.
SharedWorker == {"p001a", "p001b", "p002", "p004b", "p005", "p006", "vite"}

\* infoText.match(...) of the two-zone variants
infoMatch(v, infoText) ==
  IF v = "p000"
  THEN LET m == regexMatch(infoText, Letter, 3, 3)
       IN IF m.ok THEN [m EXCEPT !.set = toUpperCase(m.set)] ELSE m
  ELSE regexMatch(infoText, AlNum, 3, Unbounded(infoText))

\* The cleaned title of a title band.
cleanName(v, text) ==
  CASE v = "p000" -> replaceOutside(trim(text), Letter \cup Space, <<" ">>)
    [] v = "p004a" ->
         collapseSpaces(replaceOutside(trim(text), Letter \cup Space, <<" ">>))
    [] OTHER -> replaceOutside(trim(text), Letter \cup Space, <<>>)

\* cleanName.length > n: the title is long enough to be looked up.
MinNameLen(v) == IF v \in FileInput THEN 2 ELSE 3

\* The candidate lines of a full-frame recognition.
LineKeep(v) == IF v = "p002" THEN Letter \cup Space \cup {","} ELSE Letter \cup Space
MinLineLen(v) == IF v = "p002" THEN 3 ELSE 4
MaxLines(v) == IF v = "p002" THEN 3 ELSE 5

RECURSIVE cleanEach(_, _)
cleanEach(ls, keep) ==
  IF ls = <<>> THEN <<>>
  ELSE <<replaceOutside(trim(Head(ls)), keep, <<>>)>> \o cleanEach(Tail(ls), keep)

candidateLines(v, text) ==
  slice(longerThan(cleanEach(split(text), LineKeep(v)), MinLineLen(v)), MaxLines(v))

(***************************************************************************)
(* CardData records.  A field the catalog did not send is Undefined; the   *)
(* value null of the result state is the record Null.                      *)
(***************************************************************************)
Undefined == "undefined"

\* JavaScript truthiness of an optional string field.
Truthy(x) == x \notin {Undefined, ""}

Card(name, lang, oracle, printed) ==
  [name |-> name, lang |-> lang, oracle_text |-> oracle, printed_text |-> printed,
   translated_text |-> Undefined, original_en |-> Undefined]

Null == Card(Undefined, Undefined, Undefined, Undefined)

\* What the catalog holds: an English printing, its Portuguese printing, and
\* a printing in a third language that carries printed text only.
CardEN == Card("Bolt", "en", "oracle", Undefined)
CardPT == Card("Bolt", "pt", "oracle", "impresso")
CardES == Card("Solid", "es", Undefined, "impreso")

\* Records that /cards/{set}/{number} and /cards/named may answer with.
Named == {CardEN, CardPT, CardES}
\* First hits that /cards/search ... lang:pt may answer with.
Hits == {CardPT}

\* The target locale of the localization step.
TargetLang == "pt"

\* The translation backend: the text that comes back for a text sent.
Translation(text) ==
  CASE text = "oracle" -> "traduzido"
    [] text = "impresso" -> "retraduzido"
    [] text = "impreso" -> "traducido"
    [] OTHER -> ""

(***************************************************************************)
(* What the services may answer.                                           *)
(***************************************************************************)
TitleGood == <<"B", "o", "l", "t", "1">>
TitleShort == <<"x", "q", "z">>
InfoGood == <<"M", "I", "D", " ", "2", "4">>
InfoPacked == <<"M", "I", "D", "2", "4", "5">>
InfoBad == <<"?">>
FrameGood == <<"B", "o", "l", "t", "s", "\n", "S", "o", "l", "i", "d">>
FrameBad == <<"x", "q", "z", "\n", "1", "2">>
Suggestion == <<"B", "o", "l", "t">>

Ocr(title, info, confidence) ==
  [threw |-> FALSE, at |-> "none", title |-> title, info |-> info,
   confidence |-> confidence]

\* The try block threw at recognize (or img.decode, or OpenCV), or, in the
\* variants that make a worker per scan, already at createWorker.
OcrThrew ==
  [threw |-> TRUE, at |-> "recognize", title |-> <<>>, info |-> <<>>, confidence |-> 0]

CreateThrew == [OcrThrew EXCEPT !.at = "createWorker"]

\* recognize() of every zone of one pass: the texts, or an exception.
OcrOutputs(v) ==
  {OcrThrew} \cup (IF v \in SharedWorker THEN {} ELSE {CreateThrew}) \cup
  (CASE v \in TwoZone ->
          {Ocr(TitleGood, InfoGood, 90), Ocr(TitleGood, InfoBad, 90),
           Ocr(TitleShort, InfoBad, 90)}
     [] v = "p004a" ->
          {Ocr(TitleGood, <<>>, 90), Ocr(TitleGood, <<>>, 10), Ocr(TitleShort, <<>>, 90)}
     [] v \in TitleZone -> {Ocr(TitleGood, <<>>, 90), Ocr(TitleShort, <<>>, 90)}
     [] OTHER -> {Ocr(FrameGood, <<>>, 90), Ocr(FrameBad, <<>>, 90)})

\* More recognized texts, for the runs that use the screen one handler at
\* a time: a set code and number without a blank between them, a set code
\* in lower case, a title that begins with a digit and a blank, and a
\* frame of six readable lines.
InfoLower == <<"m", "i", "d", " ", "2", "4">>
TitleLead == <<"1", " ", "B", "o", "l", "t">>
FrameLong ==
  FrameGood \o <<"\n">> \o FrameGood \o <<"\n">> \o FrameGood

OcrOutputsWide(v) ==
  OcrOutputs(v) \cup
  (CASE v \in TwoZone ->
          {Ocr(TitleShort, InfoPacked, 90), Ocr(TitleGood, InfoLower, 90),
           Ocr(TitleLead, InfoBad, 90)}
     [] v \in TitleZone -> {Ocr(TitleLead, <<>>, 90)}
     [] OTHER -> {Ocr(FrameLong, <<>>, 90)})

\* A fetch of a card: 200 with a record, a non-success status, a rejected
\* fetch, or a body that json() cannot parse.
CardReplies ==
  {[status |-> "ok", card |-> c] : c \in Named}
    \cup {[status |-> s, card |-> Null] : s \in {"notok", "neterr", "malformed"}}

\* The localized-printing search: hits (the first one), no hit, failure.
SearchReplies ==
  {[status |-> "ok", card |-> c] : c \in Hits}
    \cup {[status |-> s, card |-> Null] : s \in {"empty", "notok", "neterr", "malformed"}}

\* Autocomplete: suggestions (the top one), none, or failure.
AutoReplies ==
  {[status |-> "ok", top |-> Suggestion]}
    \cup {[status |-> s, top |-> <<>>] : s \in {"empty", "neterr", "malformed"}}

\* The translation request.
TranslateReplies == {"ok", "neterr", "malformed"}

(***************************************************************************)
(* State.                                                                  *)
(***************************************************************************)
VARIABLES
  variant,        \* which screen runs
  result,         \* useState<CardData | null>
  loading,        \* useState(false): the busy flag
  error,          \* useState<string | null>: the message shown, by kind
  isScanning,     \* useState(false): the camera view is open
  worker,         \* workerRef / workerReady: the OCR worker made at mount
  capturedImage,  \* useState<string | null> of the photo variants
  tasks,          \* the handler invocations suspended at an await (a bag)
  last,           \* the handler invocation that ended in the last step
  image           \* the frame, the rectangle drawn from it, a pixel of it

\* The worker of the session: what workerRef / workerReady hold (none for
\* the variants that make a worker per scan), whether the component is
\* still mounted, and how many workers createWorker has made and
\* terminate() has released.
Worker(ref) == [ref |-> ref, mounted |-> TRUE, created |-> 0, terminated |-> 0]

vars ==
  <<variant, result, loading, error, isScanning, worker, capturedImage, tasks, last, image>>

NoError == "null"

\* A suspended invocation: the call it awaits (pc) and its closure.
\*   titleText  the recognized title band, or the recognized frame
\*   infoText   the recognized collector-info band
\*   set, num   the parameters of searchBySet / searchByInfo
\*   name       the parameter of searchByName, or the current candidate line
\*   query      the string sent to /cards/named?fuzzy=
\*   lines      the candidate lines not tried yet
\*   tried      the candidate lines of this pass queried so far, in order
\*   pass       index into thresholds (p005)
\*   card       cardData: the record a lookup resolved
\*   captured   the result the translate closure was created with
\*   text       the text sent to the translation service
\*   prior      the result that was shown when the translation answered
\*   exact      what the exact lookup of this scan answered
\*   hit        the first hit of the localized-printing search
\*   reply      the status of the answer that is being handled
\*   created    the workers this scan made with createWorker
\*   terminated the workers this scan released with terminate()
\*   calls      the remote calls this invocation has issued
NoReply == [status |-> "none", card |-> Null]

NewTask(kind, pc) ==
  [kind |-> kind, pc |-> pc, titleText |-> <<>>, infoText |-> <<>>, set |-> <<>>, num |-> <<>>,
   name |-> <<>>, query |-> <<>>, lines |-> <<>>, tried |-> <<>>, pass |-> 1,
   card |-> Null,
   captured |-> Null, text |-> "", prior |-> Null, exact |-> NoReply, hit |-> Null,
   reply |-> "none", created |-> 0, terminated |-> 0, calls |-> {}]

NoTask == NewTask("none", "none")

\* last: what the last step ended (a scan, a translation, the creation of
\* the worker) or did (a dismissal of the result), with the closure of the
\* invocation that ended and what it set.
Event(op, t, setRes, setErr) ==
  [op |-> op, task |-> t, setResult |-> setRes, setError |-> setErr]

NoEvent == Event("none", NoTask, FALSE, FALSE)

\* image: the source bitmap (video.videoWidth x video.videoHeight, or
\* img.width x img.height of a photo), the zoom level of p005, the source
\* rectangle of the last drawImage with the extent of the bitmap it was
\* taken from, one pixel [r, g, b, a] of the drawn canvas, and how often
\* the binarization loop has run over it.
NoRect == [zone |-> "none"]
NoPixel == [r |-> 0, g |-> 0, b |-> 0, a |-> 0]

Image(w, h, zoom) ==
  [width |-> w, height |-> h, zoomLevel |-> zoom, rect |-> NoRect,
   raw |-> NoPixel, pixel |-> NoPixel, passes |-> 0]

\* The pipeline runs are followed without pixel data.
NoImage == Image(0, 0, 1)

Init ==
  /\ variant \in Variants
  /\ result = Null
  /\ loading = FALSE
  /\ error = NoError
  /\ isScanning = FALSE
  /\ worker = Worker(IF variant \in SharedWorker THEN "pending" ELSE "none")
  /\ capturedImage = FALSE
  /\ tasks = EmptyBag
  /\ last = NoEvent
  /\ image = NoImage

\* The suspended invocations are unordered: any of them may be resumed next.
Remove(bag, t) == bag (-) SetToBag({t})
Add(bag, t) == bag (+) SetToBag({t})

Suspended == BagToSet(tasks)
Scans == {t \in Suspended : t.kind = "scan"}
Translates == {t \in Suspended : t.kind = "translate"}

\* How many invocations of a kind are suspended.
InFlight(kind) ==
  BagCardinality([t \in {x \in Suspended : x.kind = kind} |-> tasks[t]])

(***************************************************************************)
(* How a run of handler code ends: suspended again at an await, or         *)
(* returned.  setLoading(false) is the last statement on every return      *)
(* path but one (EndStuck).                                                *)
(***************************************************************************)
Issue(t, call) == [t EXCEPT !.pc = call, !.calls = @ \cup {call}]

Resume(i, t) ==
  /\ tasks' = Add(Remove(tasks, i), [t EXCEPT !.reply = "none"])
  /\ last' = NoEvent
  /\ UNCHANGED <<variant, image, result, loading, error, isScanning, worker, capturedImage>>

\* setResult(card); ...; setLoading(false)
EndResult(i, t, card) ==
  /\ result' = card
  /\ loading' = FALSE
  /\ tasks' = Remove(tasks, i)
  /\ last' = Event("scanEnd", t, TRUE, FALSE)
  /\ UNCHANGED <<variant, image, error, isScanning, worker, capturedImage>>

\* setError(msg); ...; setLoading(false)
EndError(i, t, msg) ==
  /\ error' = msg
  /\ loading' = FALSE
  /\ tasks' = Remove(tasks, i)
  /\ last' = Event("scanEnd", t, FALSE, TRUE)
  /\ UNCHANGED <<variant, image, result, isScanning, worker, capturedImage>>

\* catch (e) { } ...; setLoading(false): nothing is set.
EndSilent(i, t) ==
  /\ loading' = FALSE
  /\ tasks' = Remove(tasks, i)
  /\ last' = Event("scanEnd", t, FALSE, FALSE)
  /\ UNCHANGED <<variant, image, result, error, isScanning, worker, capturedImage>>

(***************************************************************************)
(* The OCR worker made when the component mounts.                          *)
(***************************************************************************)
\* useEffect(initWorker): createWorker('eng') resolves or rejects.  p002
\* has no try/catch around it: a rejection sets nothing.  The worker is
\* stored and the message shown only `if (active)`, that is, while the
\* cleanup has not run; p002 stores it unconditionally.
initWorker ==
  /\ worker.ref = "pending"
  /\ \E ok \in BOOLEAN :
       LET shown == worker.mounted /\ variant # "p002"
           kept == worker.mounted \/ variant = "p002"
       IN /\ worker' = [worker EXCEPT
                          !.ref = IF ~ok THEN "failed"
                                  ELSE IF kept THEN "ready" ELSE "dropped",
                          !.created = IF ok THEN @ + 1 ELSE @]
          /\ error' = IF ok \/ ~shown THEN error ELSE "scannerOffline"
          /\ last' = Event("initEnd", NoTask, FALSE, ~ok /\ shown)
  /\ UNCHANGED <<variant, image, result, loading, isScanning, capturedImage, tasks>>

\* The cleanup of the effect, run when the component unmounts: active =
\* false (p002 has no such flag), and terminate() if workerRef.current
\* holds a worker.
unmount ==
  /\ worker.mounted
  /\ worker' = [worker EXCEPT
                  !.mounted = FALSE,
                  !.terminated = IF worker.ref = "ready" THEN @ + 1 ELSE @]
  /\ last' = NoEvent
  /\ UNCHANGED <<variant, image, result, loading, error, isScanning, capturedImage, tasks>>

(***************************************************************************)
(* The camera.                                                             *)
(***************************************************************************)
\* startCamera: setError(null); getUserMedia resolves or rejects.  The
\* button of p006 is disabled until the worker is ready; vite and p004b
\* also clear the result.
startCamera ==
  /\ variant \notin FileInput
  /\ ~isScanning
  /\ variant = "p006" => worker.ref = "ready"
  /\ \E ok \in BOOLEAN :
       /\ isScanning' = ok
       /\ error' = IF ok THEN NoError ELSE "camera"
       /\ result' = IF ok /\ variant \in {"vite", "p004b"} THEN Null ELSE result
  /\ last' = NoEvent
  /\ UNCHANGED <<variant, image, loading, worker, capturedImage, tasks>>

stopCamera ==
  /\ isScanning
  /\ isScanning' = FALSE
  /\ last' = NoEvent
  /\ UNCHANGED <<variant, image, result, loading, error, worker, capturedImage, tasks>>

(***************************************************************************)
(* Starting a scan.                                                        *)
(***************************************************************************)
\* The scan button: rendered while the camera view is open, disabled while
\* loading (and, in p004b, p005 and vite, until the worker is ready).
ScanButtonEnabled ==
  /\ variant \notin FileInput
  /\ isScanning
  /\ ~loading
  /\ variant \in {"p004b", "p005", "vite"} => worker.ref = "ready"

\* captureAndScan up to its first await.  Without a worker p002 shows a
\* message and p004b, p005, p006 return at once.
captureAndScan ==
  /\ ScanButtonEnabled
  /\ BagCardinality(tasks) < MaxTasks
  /\ variant \in (SharedWorker \ {"p002"}) => worker.ref = "ready"
  /\ last' = NoEvent
  /\ IF variant = "p002" /\ worker.ref # "ready"
     THEN /\ error' = "scannerLoading"
          /\ UNCHANGED <<variant, image, result, loading, isScanning, worker, capturedImage, tasks>>
     ELSE /\ loading' = TRUE
          /\ error' = NoError
          /\ result' = IF variant = "p005" THEN Null ELSE result
          /\ tasks' = Add(tasks, Issue(NewTask("scan", "start"), "ocr"))
          /\ UNCHANGED <<variant, image, isScanning, worker, capturedImage>>

\* The photo variants: the welcome button (shown while nothing is loading,
\* shown or captured) or NOVA FOTO (shown with a result; it clears result
\* and capturedImage and opens the file input).
WelcomeButton ==
  /\ ~loading
  /\ result = Null
  /\ variant = "p001a" => ~capturedImage
  /\ variant = "p001b" => worker.ref = "ready"

NovaFotoButton == result # Null

\* handleFileChange: a photo was chosen.
handleFileChange ==
  /\ variant \in FileInput
  /\ WelcomeButton \/ NovaFotoButton
  /\ BagCardinality(tasks) < MaxTasks
  /\ error' = NoError
  /\ result' = Null
  /\ loading' = TRUE
  /\ capturedImage' = IF NovaFotoButton THEN FALSE ELSE capturedImage
  /\ tasks' = Add(tasks, NewTask("scan", "read"))
  /\ last' = NoEvent
  /\ UNCHANGED <<variant, image, isScanning, worker>>

\* reader.onload: setCapturedImage, then processPhoto (p001a) or
\* processWithVisualIdentity (p001b) up to its first await.  Without a
\* worker p001a returns and leaves loading set; p001b reports and clears it.
readerOnload(i) ==
  /\ i \in Scans
  /\ i.pc = "read"
  /\ capturedImage' = TRUE
  /\ UNCHANGED <<variant, image, result, isScanning, worker>>
  /\ IF worker.ref = "ready"
     THEN /\ tasks' = Add(Remove(tasks, i), Issue(i, "ocr"))
          /\ last' = NoEvent
          /\ UNCHANGED <<loading, error>>
     ELSE /\ tasks' = Remove(tasks, i)
          /\ last' = Event("scanEnd", i, FALSE, variant = "p001b")
          /\ loading' = IF variant = "p001b" THEN FALSE ELSE loading
          /\ error' = IF variant = "p001b" THEN "scannerLoading" ELSE error

(***************************************************************************)
(* The disambiguation cascade.  Each operator is the code of the function  *)
(* of that name from its entry to its first await, run by the suspended   *)
(* invocation i, whose closure has become t.                               *)
(***************************************************************************)
\* oracle_text || "", the text every translate function accepts.
textOf(card) == IF Truthy(card.oracle_text) THEN card.oracle_text ELSE ""

\* What the localization step shows when no localized printing is used.
Kept(card) ==
  IF variant \in {"p002", "p004a"} THEN [card EXCEPT !.translated_text = Undefined]
  ELSE card

\* What the localization step shows for the first hit of the search.
\* vite adds the field original_en (held here by the original's name).
Localized(hit, card) ==
  CASE variant = "vite" -> [hit EXCEPT !.original_en = card.name]
    [] variant = "p004a" -> [hit EXCEPT !.translated_text = Undefined]
    [] OTHER -> hit

\* A fetchPTVersion that would send the text of a record in another
\* language to the translation service by itself.
fetchPTVersionTranslating(i, t, cardData) ==
  IF cardData.lang = TargetLang
  THEN EndResult(i, [t EXCEPT !.card = cardData], cardData)
  ELSE Resume(i, Issue([t EXCEPT !.card = cardData,
                                 !.text = textOf(cardData)], "translate"))

\* fetchPTVersion(cardData), and the same steps inlined in searchCard of
\* p003 and p004a: a record in the target language is final, otherwise the
\* localized printing is searched.
fetchPTVersion(i, t, cardData) ==
  IF cardData.lang = TargetLang
  THEN EndResult(i, [t EXCEPT !.card = cardData],
                 IF variant = "p004a" THEN Kept(cardData) ELSE cardData)
  ELSE Resume(i, Issue([t EXCEPT !.card = cardData], "search"))

\* searchByName(name) / searchCard(name): autocomplete first, except in
\* p003, which goes to the fuzzy lookup directly.
searchByName(i, t, name) ==
  IF variant = "p003"
  THEN Resume(i, Issue([t EXCEPT !.name = name, !.query = name], "fuzzy"))
  ELSE Resume(i, Issue([t EXCEPT !.name = name], "auto"))

\* searchBySet(set, num) / searchByInfo(set, num): the exact lookup.
searchBySet(i, t, set, num) ==
  Resume(i, Issue([t EXCEPT !.set = set, !.num = num], "exact"))

\* A loop over the candidate lines that would start from the bottom line.
tryLineBottomUp(i, t, lines) ==
  LET line == lines[Len(lines)]
      t1 == [t EXCEPT !.name = line, !.lines = SubSeq(lines, 1, Len(lines) - 1),
                      !.tried = Append(@, line)]
  IN IF variant = "p002" THEN Resume(i, Issue(t1, "auto"))
     ELSE Resume(i, Issue([t1 EXCEPT !.query = line], "fuzzy"))

\* The loop of searchMultipleFuzzy at the candidate line `lines[1]`: p002
\* asks autocomplete, p005 and vite the fuzzy lookup.
tryLine(i, t, lines) ==
  LET t1 == [t EXCEPT !.name = Head(lines), !.lines = Tail(lines),
                      !.tried = Append(@, Head(lines))]
  IN IF variant = "p002" THEN Resume(i, Issue(t1, "auto"))
     ELSE Resume(i, Issue([t1 EXCEPT !.query = Head(lines)], "fuzzy"))

\* The thresholds p005 tries, one recognition pass each.
thresholds == <<100, 130, 160>>

\* searchMultipleFuzzy found nothing for the lines of this pass: p002 and
\* vite report it; p005 goes to its next threshold, and reports after the
\* last.
noLineMatched(i, t) ==
  IF variant = "p005" /\ t.pass < Len(thresholds)
  THEN Resume(i, Issue([t EXCEPT !.pass = @ + 1], "ocr"))
  ELSE EndError(i, t, "notRecognized")

\* The current candidate line did not resolve: the next one, if any.
nextLine(i, t) ==
  IF t.lines # <<>> THEN tryLine(i, t, t.lines) ELSE noLineMatched(i, t)

\* After recognize(): the branch on the recognized texts.
afterRecognize(i, t, ocr) ==
  IF variant \in TwoZone
  THEN LET codes == infoMatch(variant, ocr.info)
           cleanTitle == cleanName(variant, ocr.title)
           t1 == [t EXCEPT !.titleText = ocr.title, !.infoText = ocr.info]
       IN IF codes.ok THEN searchBySet(i, t1, codes.set, codes.num)
          ELSE IF Len(cleanTitle) > MinNameLen(variant)
               THEN searchByName(i, t1, cleanTitle)
               ELSE EndError(i, t1, "unreadable")
  ELSE IF variant \in TitleZone
  THEN LET cleanedText == cleanName(variant, ocr.title)
           t1 == [t EXCEPT !.titleText = ocr.title]
       IN IF /\ Len(cleanedText) > MinNameLen(variant)
             /\ variant = "p004a" => ocr.confidence > 20
          THEN searchByName(i, t1, cleanedText)
          ELSE EndError(i, t1, "unreadable")
  ELSE LET lines == candidateLines(variant, ocr.title)
           t1 == [t EXCEPT !.titleText = ocr.title, !.lines = lines, !.tried = <<>>]
       IN IF lines # <<>> THEN tryLine(i, t1, lines)
          ELSE IF variant = "p005" THEN noLineMatched(i, t1)
          ELSE EndError(i, t1, "unreadable")

\* recognize() resolves with the texts of the pass, or the try block
\* throws.  The variants without a worker made at mount call createWorker
\* here, and worker.terminate() after the last recognize has resolved.
recognizeWith(i, outputs) ==
  /\ i \in Scans
  /\ i.pc = "ocr"
  /\ \E ocr \in outputs :
       LET made == IF variant \in SharedWorker \/ ocr.at = "createWorker" THEN 0 ELSE 1
           freed == IF ocr.threw THEN 0 ELSE made
           t == [i EXCEPT !.created = made, !.terminated = freed]
       IN IF ocr.threw THEN EndError(i, [t EXCEPT !.reply = "threw"], "scannerError")
          ELSE afterRecognize(i, [t EXCEPT !.reply = "ok"], ocr)

recognized(i) == recognizeWith(i, OcrOutputs(variant))

recognizedWide(i) == recognizeWith(i, OcrOutputsWide(variant))

\* Variants whose search functions end in `catch (e) { }`.
SilentCatch == {"p001a", "p004b", "p006"}

\* An exact-lookup handler that would look the title up by name even after
\* the exact lookup has resolved.
exactRepliedThenByName(i) ==
  /\ i \in Scans
  /\ i.pc = "exact"
  /\ \E r \in CardReplies :
       LET t == [i EXCEPT !.exact = r, !.reply = r.status]
       IN searchByName(i, t, cleanName(variant, t.titleText))

\* The exact lookup answers.  Not found: p000 and p004b show a message and
\* stop; p001a and p006 call searchByName(set + " " + num).  A rejected
\* fetch or an unparsable body: p000 shows the message, the others swallow
\* the exception.
exactReplied(i) ==
  /\ i \in Scans
  /\ i.pc = "exact"
  /\ \E r \in CardReplies :
       LET t == [i EXCEPT !.exact = r, !.reply = r.status]
       IN IF r.status = "ok" THEN fetchPTVersion(i, t, r.card)
          ELSE IF variant = "p000" THEN EndError(i, t, "setNotFound")
          ELSE IF r.status = "notok"
               THEN IF variant = "p004b" THEN EndError(i, t, "setNotFound")
                    ELSE searchByName(i, t, t.set \o <<" ">> \o t.num)
               ELSE EndSilent(i, t)

\* A lookup by name threw inside searchByName / searchCard / the loop body.
nameLookupThrew(i, t) ==
  CASE variant \in SilentCatch -> EndSilent(i, t)
    [] variant = "p001b" -> EndError(i, t, "connection")
    [] variant \in FullFrame -> nextLine(i, t)
    [] OTHER -> EndError(i, t, "notFound")

\* The fuzzy lookup answered with a non-success status.
nameNotFound(i, t) ==
  IF variant \in FullFrame THEN nextLine(i, t) ELSE EndError(i, t, "notFound")

\* Autocomplete answers: the top suggestion becomes the fuzzy query, and
\* without suggestions the name itself does, except in p002, which skips
\* the line.
autoReplied(i) ==
  /\ i \in Scans
  /\ i.pc = "auto"
  /\ \E r \in AutoReplies :
       LET t == [i EXCEPT !.reply = r.status]
       IN IF r.status \in {"neterr", "malformed"} THEN nameLookupThrew(i, t)
          ELSE IF r.status = "ok" THEN Resume(i, Issue([t EXCEPT !.query = r.top], "fuzzy"))
          ELSE IF variant = "p002" THEN nextLine(i, t)
          ELSE Resume(i, Issue([t EXCEPT !.query = t.name], "fuzzy"))

\* The fuzzy lookup answers.  p005 returns the record to captureAndScan,
\* which leaves the loop and never calls setResult.
fuzzyReplied(i) ==
  /\ i \in Scans
  /\ i.pc = "fuzzy"
  /\ \E r \in CardReplies :
       LET t == [i EXCEPT !.reply = r.status]
       IN IF r.status = "ok"
          THEN IF variant = "p005" THEN EndSilent(i, [t EXCEPT !.card = r.card])
               ELSE fetchPTVersion(i, t, r.card)
          ELSE IF r.status = "notok" THEN nameNotFound(i, t)
          ELSE nameLookupThrew(i, t)

\* The localized-printing search answers.  A hit replaces the record; no
\* hit or a failure keeps cardData, except that in p003 and p004a an
\* exception reaches the catch of searchCard, which shows "not found".
searchReplied(i) ==
  /\ i \in Scans
  /\ i.pc = "search"
  /\ \E r \in SearchReplies :
       LET t == [i EXCEPT !.reply = r.status, !.hit = r.card]
       IN IF r.status = "ok" THEN EndResult(i, t, Localized(r.card, t.card))
          ELSE IF r.status \in {"neterr", "malformed"} /\ variant \in {"p003", "p004a"}
               THEN EndError(i, t, "notFound")
          ELSE EndResult(i, t, Kept(t.card))

(***************************************************************************)
(* Translation, and what the user does with a shown result.                *)
(***************************************************************************)
\* The text translateText sends.
textToTranslate(card) ==
  IF variant \in {"p004b", "p005", "vite"}
  THEN IF Truthy(card.oracle_text) THEN card.oracle_text
       ELSE IF Truthy(card.printed_text) THEN card.printed_text ELSE ""
  ELSE textOf(card)

\* A translate button that would be rendered for a result in any
\* language.
TranslateButtonAnyLanguage ==
  /\ result # Null
  /\ ~Truthy(result.translated_text)
  /\ variant = "vite" => ~loading

\* The translate button: rendered for a result in another language that
\* has no translation yet; only vite disables it while loading.
TranslateButtonEnabled ==
  /\ result # Null
  /\ result.lang # TargetLang
  /\ ~Truthy(result.translated_text)
  /\ variant = "vite" => ~loading

\* The guard at the top of translateText / translate.
TranslateGuard ==
  CASE variant \in {"p000", "p002", "p003", "p004a"} -> Truthy(result.oracle_text)
    [] variant = "vite" -> Truthy(result.oracle_text) \/ Truthy(result.printed_text)
    [] OTHER -> TRUE

\* translateText up to its await: setLoading(true), the request leaves.
translateText ==
  /\ TranslateButtonEnabled
  /\ TranslateGuard
  /\ BagCardinality(tasks) < MaxTasks
  /\ loading' = TRUE
  /\ tasks' = Add(tasks, Issue([NewTask("translate", "start") EXCEPT
                                     !.captured = result,
                                     !.text = textToTranslate(result)], "translate"))
  /\ last' = NoEvent
  /\ UNCHANGED <<variant, image, result, error, isScanning, worker, capturedImage>>

\* A translation handler whose catch would put the closure's record back.
translateRepliedRestoring(i) ==
  /\ i \in Translates
  /\ \E r \in TranslateReplies :
       LET t == [i EXCEPT !.reply = r, !.prior = result]
       IN /\ result' = IF r = "ok"
                       THEN [t.captured EXCEPT !.translated_text = Translation(t.text)]
                       ELSE t.captured
          /\ error' = IF r = "ok" THEN error ELSE "translation"
          /\ last' = Event("translateEnd", t, r = "ok", r # "ok")
  /\ loading' = FALSE
  /\ tasks' = Remove(tasks, i)
  /\ UNCHANGED <<variant, image, isScanning, worker, capturedImage>>

\* A translation handler without the finally block: a failure would leave
\* the busy flag set.
translateRepliedNoFinally(i) ==
  /\ i \in Translates
  /\ \E r \in TranslateReplies :
       LET t == [i EXCEPT !.reply = r, !.prior = result]
       IN /\ result' = IF r = "ok"
                       THEN [t.captured EXCEPT !.translated_text = Translation(t.text)]
                       ELSE result
          /\ error' = IF r = "ok" THEN error ELSE "translation"
          /\ loading' = IF r = "ok" THEN FALSE ELSE loading
          /\ last' = Event("translateEnd", t, r = "ok", r # "ok")
  /\ tasks' = Remove(tasks, i)
  /\ UNCHANGED <<variant, image, isScanning, worker, capturedImage>>

\* A translation handler that would translate what the shown record
\* displays (its previous translation, if it has one) and attach it to
\* the shown record.
translateRepliedChaining(i) ==
  /\ i \in Translates
  /\ \E r \in TranslateReplies :
       LET t == [i EXCEPT !.reply = r, !.prior = result]
           shown == IF Truthy(result.translated_text) THEN result.translated_text
                    ELSE t.text
       IN /\ result' = IF r = "ok"
                       THEN [result EXCEPT !.translated_text = Translation(shown)]
                       ELSE result
          /\ error' = IF r = "ok" THEN error ELSE "translation"
          /\ last' = Event("translateEnd", t, r = "ok", r # "ok")
  /\ loading' = FALSE
  /\ tasks' = Remove(tasks, i)
  /\ UNCHANGED <<variant, image, isScanning, worker, capturedImage>>

\* The translation answers: the closure's record gets translated_text, or
\* the catch shows a message; finally setLoading(false).
translateReplied(i) ==
  /\ i \in Translates
  /\ \E r \in TranslateReplies :
       LET t == [i EXCEPT !.reply = r, !.prior = result]
       IN /\ result' = IF r = "ok"
                       THEN [t.captured EXCEPT !.translated_text = Translation(t.text)]
                       ELSE result
          /\ error' = IF r = "ok" THEN error ELSE "translation"
          /\ last' = Event("translateEnd", t, r = "ok", r # "ok")
  /\ loading' = FALSE
  /\ tasks' = Remove(tasks, i)
  /\ UNCHANGED <<variant, image, isScanning, worker, capturedImage>>

\* The close button of the result: setResult(null) (and, in the photo
\* variants, setCapturedImage(null)).
closeResult ==
  /\ result # Null
  /\ result' = Null
  /\ capturedImage' = IF variant \in FileInput THEN FALSE ELSE capturedImage
  /\ last' = Event("dismiss", NoTask, FALSE, FALSE)
  /\ UNCHANGED <<variant, image, loading, error, isScanning, worker, tasks>>

\* The close button of the error toast (p001a, p001b, vite): setError(null).
closeError ==
  /\ variant \in FileInput \cup {"vite"}
  /\ error # NoError
  /\ error' = NoError
  /\ last' = NoEvent
  /\ UNCHANGED <<variant, image, result, loading, isScanning, worker, capturedImage, tasks>>

(***************************************************************************)
(* Crop and binarize.  Lengths are exact fractions [n, d] (d > 0, lowest   *)
(* terms): the code computes them as products of the frame size with       *)
(* decimal constants.                                                      *)
(***************************************************************************)
RECURSIVE GCD(_, _)
GCD(a, b) == IF b = 0 THEN a ELSE GCD(b, a % b)

Abs(n) == IF n < 0 THEN 0 - n ELSE n

Frac(n, d) ==
  LET g == GCD(Abs(n), d)
  IN IF n = 0 THEN [n |-> 0, d |-> 1] ELSE [n |-> n \div g, d |-> d \div g]

Num(n) == Frac(n, 1)
Plus(a, b) == Frac(a.n * b.d + b.n * a.d, a.d * b.d)
Minus(a, b) == Frac(a.n * b.d - b.n * a.d, a.d * b.d)
Times(a, b) == Frac(a.n * b.n, a.d * b.d)
Over(a, k) == Frac(a.n, a.d * k)
AtMost(a, b) == a.n * b.d <= b.n * a.d

\* drawImage(source, sx, sy, sWidth, sHeight, ...): the source rectangle,
\* and the extent of the bitmap it is taken from.
Rect(zone, sx, sy, sWidth, sHeight, srcW, srcH) ==
  [zone |-> zone, sx |-> sx, sy |-> sy, sWidth |-> sWidth, sHeight |-> sHeight,
   srcW |-> Num(srcW), srcH |-> Num(srcH)]

\* The draws of each variant: the guide area of the frame ("frame"), the
\* title band ("title") and the collector-info band ("info").
Zones(v) ==
  CASE v = "p000" -> {"frame", "title", "info"}
    [] v \in {"p001a", "p004b", "p006"} -> {"title", "info"}
    [] v \in {"p001b", "p003", "p004a"} -> {"title"}
    [] OTHER -> {"frame"}

\* (vW - cw * (vW / 1280)) / 2, vH likewise with the baseline bh: the
\* centred guide area scaled from the 1280 x bh baseline.
Centred(zone, vW, vH, cw, ch, bh) ==
  LET sWidth == Times(Num(cw), Frac(vW, 1280))
      sHeight == Times(Num(ch), Frac(vH, bh))
  IN Rect(zone, Over(Minus(Num(vW), sWidth), 2), Over(Minus(Num(vH), sHeight), 2),
          sWidth, sHeight, vW, vH)

\* The title band of p004a and p004b: centred across, from 12% down.
TitleBand(vW, vH, cw, ch) ==
  LET sw == Times(Num(cw), Frac(vW, 1280))
      sh == Times(Num(ch), Frac(vH, 720))
  IN Rect("title", Over(Minus(Num(vW), sw), 2), Times(Num(vH), Frac(12, 100)),
          sw, sh, vW, vH)

sourceRect(v, zone, vW, vH, zoom) ==
  CASE v = "p000" /\ zone = "frame" -> Centred(zone, vW, vH, 400, 560, 720)
    [] v = "p000" /\ zone = "title" ->
         Rect(zone, Num(10), Num(10), Num(400 - 20), Num(60), 400, 560)
    [] v = "p000" /\ zone = "info" ->
         Rect(zone, Num(10), Num(560 - 60), Num(200), Num(50), 400, 560)
    [] v = "p001a" /\ zone = "title" ->
         Rect(zone, Num(0), Num(0), Num(vW), Times(Num(vH), Frac(15, 100)), vW, vH)
    [] v = "p001a" /\ zone = "info" ->
         Rect(zone, Num(0), Times(Num(vH), Frac(85, 100)),
              Times(Num(vW), Frac(5, 10)), Times(Num(vH), Frac(15, 100)), vW, vH)
    [] v = "p001b" ->
         Rect(zone, Num(0), Num(0), Num(500), Times(Num(700), Frac(12, 100)), 500, 700)
    [] v = "p002" -> Centred(zone, vW, vH, 800, 1100, 720)
    [] v = "p003" ->
         Rect(zone, Over(Minus(Num(vW), Num(280)), 2), Times(Num(vH), Frac(15, 100)),
              Num(280), Num(60), vW, vH)
    [] v = "p004a" -> TitleBand(vW, vH, 600, 120)
    [] v = "p004b" /\ zone = "title" -> TitleBand(vW, vH, 800, 100)
    [] v = "p004b" /\ zone = "info" ->
         LET t == TitleBand(vW, vH, 800, 100)
         IN Rect(zone, t.sx, Times(Num(vH), Frac(82, 100)), Over(t.sWidth, 2),
                 t.sHeight, vW, vH)
    [] v = "p005" ->
         LET sSize == Times(Frac(vW, zoom), Frac(1000, 1280))
         IN Rect(zone, Over(Minus(Num(vW), sSize), 2), Over(Minus(Num(vH), sSize), 2),
                 sSize, sSize, vW, vH)
    [] v = "p006" /\ zone = "title" ->
         Rect(zone, Times(Num(vW), Frac(1, 10)), Times(Num(vH), Frac(1, 10)),
              Times(Num(vW), Frac(8, 10)), Times(Num(vH), Frac(12, 100)), vW, vH)
    [] v = "p006" /\ zone = "info" ->
         Rect(zone, Times(Num(vW), Frac(5, 100)), Times(Num(vH), Frac(8, 10)),
              Times(Num(vW), Frac(4, 10)), Times(Num(vH), Frac(15, 100)), vW, vH)
    [] OTHER -> Centred(zone, vW, vH, 1000, 1000, 1280)

\* The luminance weights of a variant, as integers over a common scale.
Weights(v) ==
  CASE v \in {"p000", "p004a"} -> [r |-> 2126, g |-> 7152, b |-> 722, scale |-> 10000]
    [] v = "p002" -> [r |-> 299, g |-> 587, b |-> 114, scale |-> 1000]
    [] v \in {"p001a", "p003", "p006"} -> [r |-> 1, g |-> 1, b |-> 1, scale |-> 3]
    [] OTHER -> [r |-> 34, g |-> 50, b |-> 16, scale |-> 100]

\* The brightness cutoffs a variant uses (p005: one per pass).
Thresholds(v) ==
  CASE v = "p000" -> {130}
    [] v = "p001a" -> {110}
    [] v = "p002" -> {140}
    [] v = "p003" -> {128}
    [] v = "p004a" -> {140}
    [] v = "p004b" -> {125}
    [] v = "p005" -> {thresholds[k] : k \in 1..Len(thresholds)}
    [] v = "p006" -> {115}
    [] v = "vite" -> {120}
    [] OTHER -> {}

\* The zones a variant binarizes before recognition: p000 the two bands it
\* cuts from the guide area, p001a its title band only, p001b none.
Binarized(v) ==
  CASE v = "p000" -> {"title", "info"}
    [] v = "p001a" -> {"title"}
    [] v = "p001b" -> {}
    [] OTHER -> Zones(v)

\* A loop body that would write the inverse: dark where the pixel is
\* bright.
binarizeInverted(v, thr, px) ==
  LET w == Weights(v)
      c == IF w.r * px.r + w.g * px.g + w.b * px.b > thr * w.scale THEN 0 ELSE 255
  IN [px EXCEPT !.r = c, !.g = c, !.b = c]

\* The body of the loop of preprocessImage / processImage / processZone
\* for one pixel: data[i] = data[i + 1] = data[i + 2] = v; data[i + 3] is
\* not written.
binarize(v, thr, px) ==
  LET w == Weights(v)
      c == IF w.r * px.r + w.g * px.g + w.b * px.b > thr * w.scale THEN 255 ELSE 0
  IN [px EXCEPT !.r = c, !.g = c, !.b = c]

\* Frame and photo sizes, and pixels of a frame.
FrameSizes == {<<1280, 720>>, <<1920, 1080>>, <<640, 480>>, <<720, 1280>>, <<200, 100>>}

ZoomLevels(v) == IF v = "p005" THEN {1, 2} ELSE {1}

Pixel(r, g, b, a) == [r |-> r, g |-> g, b |-> b, a |-> a]

RawPixels ==
  {Pixel(0, 0, 0, 255), Pixel(255, 255, 255, 255), Pixel(130, 130, 130, 255),
   Pixel(200, 60, 40, 128), Pixel(90, 180, 100, 0), Pixel(120, 121, 119, 200)}

\* How often the binarization loop is run over one canvas.
MaxPasses == 2

\* drawImage of a zone: the source rectangle is computed from the frame
\* size, and the canvas holds fresh pixels of the frame.
drawImage ==
  /\ image # NoImage
  /\ \E zone \in Zones(variant), px \in RawPixels :
       image' = [image EXCEPT
                   !.rect = sourceRect(variant, zone, image.width, image.height,
                                       image.zoomLevel),
                   !.raw = px, !.pixel = px, !.passes = 0]
  /\ UNCHANGED <<variant, result, loading, error, isScanning, worker, capturedImage,
                 tasks, last>>

\* The binarization loop runs over the drawn canvas.
preprocessImage ==
  /\ image.rect # NoRect
  /\ image.rect.zone \in Binarized(variant)
  /\ image.passes < MaxPasses
  /\ \E thr \in Thresholds(variant) :
       image' = [image EXCEPT !.pixel = binarize(variant, thr, image.pixel),
                              !.passes = @ + 1]
  /\ UNCHANGED <<variant, result, loading, error, isScanning, worker, capturedImage,
                 tasks, last>>

Next ==
  \/ initWorker
  \/ startCamera
  \/ stopCamera
  \/ captureAndScan
  \/ handleFileChange
  \/ \E i \in Suspended : readerOnload(i)
  \/ \E i \in Suspended : recognized(i)
  \/ \E i \in Suspended : exactReplied(i)
  \/ \E i \in Suspended : autoReplied(i)
  \/ \E i \in Suspended : fuzzyReplied(i)
  \/ \E i \in Suspended : searchReplied(i)
  \/ translateText
  \/ \E i \in Suspended : translateReplied(i)
  \/ closeResult
  \/ closeError

Spec == Init /\ [][Next]_vars

(***************************************************************************)
(* The screen used one handler at a time: a scan or a translation starts   *)
(* only when no invocation is outstanding.  These runs draw the recognized *)
(* texts from the wider set.                                               *)
(***************************************************************************)
Idle == tasks = EmptyBag

scanAlone == Idle /\ captureAndScan

photoAlone == Idle /\ handleFileChange

translateAlone == Idle /\ translateText

NextAlone ==
  \/ initWorker
  \/ startCamera
  \/ stopCamera
  \/ scanAlone
  \/ photoAlone
  \/ \E i \in Suspended : readerOnload(i)
  \/ \E i \in Suspended : recognizedWide(i)
  \/ \E i \in Suspended : exactReplied(i)
  \/ \E i \in Suspended : autoReplied(i)
  \/ \E i \in Suspended : fuzzyReplied(i)
  \/ \E i \in Suspended : searchReplied(i)
  \/ translateAlone
  \/ \E i \in Suspended : translateReplied(i)
  \/ closeResult
  \/ closeError

SpecAlone == Init /\ [][NextAlone]_vars

(***************************************************************************)
(* The whole session: the component may unmount at any moment, after       *)
(* which no button is there to press; the creation of the worker may       *)
(* still resolve afterwards.                                               *)
(***************************************************************************)
Mounted == worker.mounted

whileMounted == Mounted /\ NextAlone

createdLate == ~Mounted /\ initWorker

NextSession ==
  \/ whileMounted
  \/ unmount
  \/ createdLate

SpecSession == Init /\ [][NextSession]_vars

(***************************************************************************)
(* Crop and binarize alone: a frame of some size, zones drawn from it,     *)
(* the binarization loop run over what was drawn.                          *)
(***************************************************************************)
InitImage ==
  /\ variant \in Variants
  /\ result = Null
  /\ loading = FALSE
  /\ error = NoError
  /\ isScanning = FALSE
  /\ worker = Worker(IF variant \in SharedWorker THEN "pending" ELSE "none")
  /\ capturedImage = FALSE
  /\ tasks = EmptyBag
  /\ last = NoEvent
  /\ \E size \in FrameSizes, zoom \in ZoomLevels(variant) :
       image = Image(size[1], size[2], zoom)

NextImage ==
  \/ drawImage
  \/ preprocessImage

SpecImage == InitImage /\ [][NextImage]_vars


(***************************************************************************)
(* Properties of the disambiguation cascade.                               *)
(***************************************************************************)
\* The exact lookup of scan t has answered, and not with a record.
ExactFailed(t) == t.exact.status \notin {"none", "ok"}

\* The title band of scan t cleans to a name long enough to look up.
Readable(t) == Len(cleanName(variant, t.titleText)) > MinNameLen(variant)

\* The names of the lookups by name.
NameLookups == {"auto", "fuzzy"}

\* C1: in the two-zone variants, a scan whose exact set+number lookup has
\* failed goes on to the lookup by name with the cleaned title text it
\* read (not with the set+number string), and when that lookup resolves a
\* record the scan ends with a result.
C1_TitleLookupAfterExactFailure ==
  /\ \A t \in Scans :
       (variant \in TwoZone /\ ExactFailed(t) /\ Readable(t))
         => t.name = cleanName(variant, t.titleText)
  /\ (last.op = "scanEnd" /\ variant \in TwoZone
        /\ ExactFailed(last.task) /\ Readable(last.task))
       => /\ last.task.calls \cap NameLookups # {}
          /\ last.task.name = cleanName(variant, last.task.titleText)
          /\ last.task.card # Null => result # Null

\* C2: in the two-zone variants, once the exact set+number lookup has
\* answered with a record, that record is the one handed to localization
\* and no lookup by name is issued by the scan, whatever the title band
\* reads; the scan ends showing a result.
C2_ExactRecordWins ==
  /\ \A t \in Scans :
       (variant \in TwoZone /\ t.exact.status = "ok")
         => /\ t.card = t.exact.card
            /\ t.pc = "search"
            /\ t.calls \cap NameLookups = {}
  /\ (last.op = "scanEnd" /\ variant \in TwoZone /\ last.task.exact.status = "ok")
       => /\ last.task.card = last.task.exact.card
          /\ last.task.calls \cap NameLookups = {}
          /\ last.setResult

\* A two-zone scan ended on the record of its exact lookup although its
\* title band read a name that could have been looked up.
C2_Witness ==
  /\ last.op = "scanEnd"
  /\ variant \in TwoZone
  /\ last.task.exact.status = "ok"
  /\ Readable(last.task)
  /\ result # Null

\* C3: in every variant, a scan in which a catalog lookup resolved a
\* record ends with a result.
C3_ResolvedRecordIsShown ==
  (last.op = "scanEnd" /\ last.task.card # Null) => (last.setResult /\ result # Null)

(***************************************************************************)
(* Properties of the busy flag.                                            *)
(***************************************************************************)
\* C4: at most one capture-and-scan is in flight.
C4_OneScanInFlight == InFlight("scan") <= 1

\* C5: while a scan or a translate request is outstanding, the translate
\* action cannot be started.
C5_TranslateWaits ==
  tasks # EmptyBag => ~(TranslateButtonEnabled /\ TranslateGuard)

(***************************************************************************)
(* Properties of the ends of a scan.                                       *)
(***************************************************************************)
\* The answers that are a failure of the remote call.
Failures == {"threw", "notok", "neterr", "malformed"}

\* C6: a scan whose last step handled the failure of a remote call sets a
\* result or an error message (a failure that is not the last step went on
\* to a fallback lookup).
C6_FailureIsReported ==
  (last.op = "scanEnd"  /\ last.task.reply \in Failures)
    => (last.setResult \/ last.setError)

\* C7: no result is held while a scan is in flight, and a scan that ends
\* without resolving a record leaves the result empty.
C7_ResultClearedByScan ==
  /\ InFlight("scan") > 0 => result = Null
  /\ (last.op = "scanEnd" /\ ~last.setResult) => result = Null

(***************************************************************************)
(* Properties of translation.                                              *)
(***************************************************************************)
\* The step ends a scan by showing the record the scan resolved.
ScanShowsRecord == last'.op = "scanEnd" /\ last'.setResult

C9_TranslationOnlyOnRequest ==
  /\ \A t \in Suspended :
       (t.pc = "translate" \/ "translate" \in t.calls) => t.kind = "translate"
  /\ last.op = "scanEnd" => "translate" \notin last.task.calls
  /\ (last.op = "scanEnd" /\ last.setResult)
       => (result # Null /\ result.translated_text = Undefined)

\* A scan ended showing a record in another language: the text is there
\* to translate, and nothing has been translated.
C9_Witness ==
  /\ last.op = "scanEnd"
  /\ last.setResult
  /\ result # Null
  /\ result.lang # TargetLang
  /\ Truthy(result.oracle_text)

\* C10: the step that handles a failed translation leaves the result as it
\* was, sets the error message and clears the busy flag.
C10_TranslationFailure ==
  [][(last'.op = "translateEnd" /\ last'.task.reply # "ok")
       => (result' = result /\ error' = "translation" /\ loading' = FALSE)]_vars

\* A translation failed while a record was shown and the busy flag was
\* set: the record is shown as before, with the message.
C10_Witness ==
  /\ last.op = "translateEnd"
  /\ last.task.reply \in {"neterr", "malformed"}
  /\ result = last.task.captured
  /\ result # Null
  /\ error = "translation"
  /\ ~loading

\* The record without its translation.
Untranslated(card) == [card EXCEPT !.translated_text = Undefined]

\* A translation answered for the record that is shown, which already
\* carried a translation.
SecondTranslation ==
  /\ last.op = "translateEnd"
  /\ last.setResult
  /\ Truthy(last.task.prior.translated_text)
  /\ Untranslated(last.task.prior) = Untranslated(last.task.captured)

\* C11: translation is idempotent.  Every translation that answers shows
\* the closure's record with the translation of its original rules text,
\* so when the shown record already carries the translation of an earlier
\* invocation on the same record, the second answer leaves it as it was.
C11_TranslationIdempotent ==
  /\ (last.op = "translateEnd" /\ last.setResult)
       => /\ result.translated_text =
               Translation(textToTranslate(Untranslated(last.task.captured)))
          /\ Untranslated(result) = Untranslated(last.task.captured)
  /\ SecondTranslation => result = last.task.prior

\* Two translations of the same record have answered one after the other,
\* and the text they translated is not empty.
C11_Witness ==
  /\ SecondTranslation
  /\ result = last.task.prior
  /\ Truthy(result.translated_text)

(***************************************************************************)
(* Properties of the localization step.                                    *)
(***************************************************************************)
\* The scan ended in the step that handled the answer of the
\* localized-printing search.
EndedInLocalization == last.op = "scanEnd" /\ last.task.pc = "search"

\* C12: when the localized-printing search answers with a hit, the result
\* is that first hit exactly: no field of the resolved record is carried
\* over and no field is added.
C12_HitReplacesWholesale ==
  (EndedInLocalization /\ last.task.reply = "ok") => result = last.task.hit

\* C13: a localization miss is not an error.  When the localized-printing
\* search fails or has no hit, the scan shows the record it had resolved
\* and the step sets no error message.
C13_MissKeepsResolvedRecord ==
  (EndedInLocalization /\ last.task.reply # "ok")
    => (last.setResult /\ result = last.task.card /\ ~last.setError)

(***************************************************************************)
(* Properties of text cleaning and extraction.                             *)
(***************************************************************************)
\* The calls to the card lookup service.
LookupCalls == {"exact", "auto", "fuzzy", "search"}

\* Scan t found no set and number, and the title it read cleans to three
\* characters or less.
ShortTitle(t) ==
  /\ variant \in TwoZone \cup TitleZone
  /\ t.set = <<>>
  /\ Len(cleanName(variant, t.titleText)) <= 3

\* C14: a scan without a set/number match whose cleaned title has length 3
\* or less calls no lookup, and ends its recognition step with an error
\* message.
C14_ShortTitleIsNotLookedUp ==
  /\ \A t \in Scans : ShortTitle(t) => t.calls \cap LookupCalls = {}
  /\ (last.op = "scanEnd" /\ last.task.reply = "ok" /\ ShortTitle(last.task))
       => (last.setError /\ last.task.calls \cap LookupCalls = {})

\* Only letters and white space, and no white space at either end.
WellCleaned(s) ==
  /\ \A k \in 1..Len(s) : s[k] \in Letter \cup Space
  /\ s # <<>> => (s[1] \notin Space /\ s[Len(s)] \notin Space)

\* The scans that read a title band, suspended or just ended.
TitleScans ==
  {t \in Scans \cup {last.task} :
     variant \in TwoZone \cup TitleZone /\ t.titleText # <<>>}

\* C15: the cleaned name of every recognized title holds letters and white
\* space only and has no white space at its ends, and that is the name the
\* length test and the lookup by name use.
C15_CleanedNameIsTrimmed ==
  \A t \in TitleScans :
    /\ WellCleaned(cleanName(variant, t.titleText))
    /\ (t.exact = NoReply /\ t.name # <<>>) => t.name = cleanName(variant, t.titleText)

\* The first substring of 3 or more alphanumeric characters, optional
\* white space and digits, split so that the digit group is whole: the
\* leftmost start, and the shortest first group there.
wholeMatch(s) ==
  LET Ns(p) == {n \in 3..Unbounded(s) : MatchesAt(s, p, n, AlNum)}
      Ps == {p \in 1..Len(s) : Ns(p) # {}}
  IN IF Ps = {} THEN NoMatch
     ELSE LET p == CHOOSE x \in Ps : \A y \in Ps : x <= y
              n == CHOOSE x \in Ns(p) : \A y \in Ns(p) : x <= y
          IN GroupsAt(s, p, n)

\* The two-zone scans that read their bands, suspended or just ended.
BandScans ==
  {t \in Scans \cup {last.task} : variant \in TwoZone /\ t.infoText # <<>>}

\* C16: when the collector-info band holds a set code and number, the scan
\* looks up the upper-cased letter group and the whole digit group ("MID
\* 245" and "MID245" both give MID and 245); a band without them yields
\* nothing, and the scan goes to the lookup by name.
C16_SetAndNumberExtracted ==
  \A t \in BandScans :
    LET m == wholeMatch(t.infoText)
    IN IF m.ok
       THEN t.set = toUpperCase(m.set) /\ t.num = m.num
       ELSE /\ t.set = <<>>
            /\ t.exact = NoReply
            /\ Readable(t) => t.name = cleanName(variant, t.titleText)

(***************************************************************************)
(* Properties of the OCR worker made at mount.                             *)
(***************************************************************************)
\* C17: when the creation of the OCR worker fails, the step sets the
\* error message, and while the worker is missing no scan has called
\* recognize.
C17_InitFailureIsReported ==
  variant \in SharedWorker =>
    /\ (last.op = "initEnd" /\ worker.ref = "failed")
         => (last.setError /\ error # NoError)
    /\ worker.ref = "failed" => \A t \in Scans \cup {last.task} : "ocr" \notin t.calls

\* The session is over: the component has unmounted and createWorker has
\* resolved or rejected.
SessionOver == ~worker.mounted /\ worker.ref # "pending"

\* C18: in the variants that make the worker at mount, no worker is
\* released more often than it was made, and when the session is over
\* every worker that was made has been released once, whether or not the
\* cleanup ran before createWorker resolved.
C18_WorkerReleasedOnce ==
  variant \in SharedWorker =>
    /\ worker.terminated <= worker.created
    /\ SessionOver => worker.terminated = worker.created

(***************************************************************************)
(* Properties of the dismissal of the result.                              *)
(***************************************************************************)
\* C19: a response that was outstanding when the result was dismissed does
\* not set the record again.  Stated for the step that follows the
\* dismissal: when it handles the answer of a translation, or ends a scan,
\* the result stays empty.
C19_DismissedStaysEmpty ==
  [][(last.op = "dismiss" /\ last'.op \in {"translateEnd", "scanEnd"})
       => result' = Null]_vars

(***************************************************************************)
(* Properties of the lookup by name.                                       *)
(***************************************************************************)
\* The scans, suspended or just ended.
AllScans == Scans \cup {t \in {last.task} : last.op = "scanEnd"}

\* C20: every fuzzy lookup follows an autocomplete query for the
\* candidate, its query is the top suggestion or, without suggestions, the
\* candidate itself, and an autocomplete answer without suggestions does
\* not end the scan: the fuzzy lookup is still issued.
C20_AutocompleteThenFuzzy ==
  /\ \A t \in AllScans :
       /\ "fuzzy" \in t.calls => "auto" \in t.calls
       /\ t.pc = "fuzzy" => t.query \in {Suggestion, t.name}
  /\ ~(last.op = "scanEnd" /\ last.task.pc = "auto" /\ last.task.reply = "empty")

(***************************************************************************)
(* Properties of the candidate lines of the full-frame variants.           *)
(***************************************************************************)
\* The full-frame scans that have recognized a frame, suspended or just
\* ended.
FrameScans == {t \in AllScans : variant \in FullFrame /\ t.titleText # <<>>}

\* C21: in the full-frame variants the candidate lines are queried from
\* the top line down, none skipped; the first candidate whose lookup
\* answers with a record gives the resolved record, and from then on the
\* scan queries no later candidate: the lines after it stay untried.
C21_FirstCandidateWins ==
  \A t \in FrameScans :
    LET c == candidateLines(variant, t.titleText)
        n == Len(t.tried)
    IN /\ n <= Len(c)
       /\ t.tried = SubSeq(c, 1, n)
       /\ t.lines = SubSeq(c, n + 1, Len(c))
       /\ t.card # Null
            => /\ n > 0
               /\ t.name = c[n]
               /\ t.pc \in {"fuzzy", "search"}

\* A full-frame scan ended on the record of its first candidate line
\* while a later candidate line was still untried.
C21_Witness ==
  /\ last.op = "scanEnd"
  /\ last.task \in FrameScans
  /\ last.task.card # Null
  /\ Len(last.task.tried) = 1
  /\ last.task.lines # <<>>

\* The retained candidate lines of a frame: every cleaned line longer
\* than the minimum length.
Retained(text) ==
  longerThan(cleanEach(split(text), LineKeep(variant)), MinLineLen(variant))

\* C22: a full-frame scan reports "card not recognized" only when every
\* retained candidate line of the frame has been queried, in order: none
\* of them is still untried.
C22_FailureAfterEveryCandidate ==
  (last.op = "scanEnd" /\ last.task \in FrameScans
     /\ last.setError /\ error = "notRecognized")
    => last.task.tried = Retained(last.task.titleText)

(***************************************************************************)
(* Properties of the text that is translated.                              *)
(***************************************************************************)
\* The translation requests, outstanding or just answered.
AllTranslates == Translates \cup {t \in {last.task} : last.op = "translateEnd"}

\* C23: the text sent to the translation service is the rules text of the
\* record the request was made for: its original text when it has one,
\* otherwise its printed text when it has one; never the empty string for
\* a record that has either.
C23_RulesTextIsSent ==
  \A t \in AllTranslates :
    /\ Truthy(t.captured.oracle_text) => t.text = t.captured.oracle_text
    /\ (~Truthy(t.captured.oracle_text) /\ Truthy(t.captured.printed_text))
         => t.text = t.captured.printed_text

(***************************************************************************)
(* Properties of crop and binarize.                                        *)
(***************************************************************************)
\* The source rectangle lies inside the bitmap it is taken from.
Inside(rect) ==
  /\ AtMost(Num(0), rect.sx)
  /\ AtMost(Num(0), rect.sy)
  /\ AtMost(Plus(rect.sx, rect.sWidth), rect.srcW)
  /\ AtMost(Plus(rect.sy, rect.sHeight), rect.srcH)

\* C24: for every frame size, the source rectangle of every draw lies
\* inside the bitmap it is taken from: its origin is not negative and
\* origin plus size does not pass the width and the height.
C24_SourceRectInsideFrame == image.rect # NoRect => Inside(image.rect)

\* Every colour channel is black or white.
BlackOrWhite(px) == px.r \in {0, 255} /\ px.g = px.r /\ px.b = px.r

\* C25: binarization is deterministic and idempotent for every threshold
\* and weighting in use: after the loop has run, every colour channel of
\* the pixel is 0 or 255 and its alpha is that of the drawn pixel; the
\* result is the one value the drawn pixel determines; and running the
\* loop again, with any threshold the variant uses, gives the same pixel.
C25_BinarizeIdempotent ==
  image.passes > 0 =>
    /\ BlackOrWhite(image.pixel)
    /\ image.pixel.a = image.raw.a
    /\ \E thr \in Thresholds(variant) : image.pixel = binarize(variant, thr, image.raw)
    /\ \A thr \in Thresholds(variant) : binarize(variant, thr, image.pixel) = image.pixel
    /\ \A thr \in Thresholds(variant) : thr \in 100..160

\* The loop has run twice over a pixel that was neither black nor white
\* and had a partial alpha.
C25_Witness ==
  /\ image.passes = 2
  /\ ~BlackOrWhite(image.raw)
  /\ image.raw.a \notin {0, 255}
  /\ BlackOrWhite(image.pixel)

(***************************************************************************)
(* Properties of the end of a scan.                                        *)
(***************************************************************************)
\* C26: the busy flag is never left set by a scan that has ended: the
\* step in which a scan returns, on whatever path, leaves it cleared.
C26_EndedScanClearsBusy == last.op = "scanEnd" => ~loading

(***************************************************************************)
(* Properties of the record a translation is attached to.                  *)
(***************************************************************************)
\* C27: when the translation answers while a record is shown, the
\* translation is attached to that record: apart from translated_text the
\* result equals the record that was shown when the answer arrived, so the
\* record of a scan that ended meanwhile is not replaced by the older one.
C27_TranslationAttachedToShown ==
  (last.op = "translateEnd" /\ last.setResult /\ last.task.prior # Null)
    => Untranslated(result) = Untranslated(last.task.prior)

\* C28: a shown record that carries translated_text is in a language
\* other than the target one.  Every translation request was made for a
\* record in another language that had no translation yet, and the step
\* that handles the answer attaches it to a record in another language.
C28_TranslatedIsForeign ==
  /\ (result # Null /\ result.translated_text # Undefined) => result.lang # TargetLang
  /\ \A t \in AllTranslates :
       /\ t.captured # Null
       /\ t.captured.lang # TargetLang
       /\ ~Truthy(t.captured.translated_text)
  /\ (last.op = "translateEnd" /\ last.setResult) => result.lang # TargetLang

\* A translation answered while the record shown was in the target
\* language (a scan had ended meanwhile), and the record that carries the
\* translation is in another language.
C28_Witness ==
  /\ last.op = "translateEnd"
  /\ last.setResult
  /\ last.task.prior.lang = TargetLang
  /\ Truthy(result.translated_text)
  /\ result.lang # TargetLang

(***************************************************************************)
(* Properties of the OCR worker made per scan.                             *)
(***************************************************************************)
\* C29: in the variants that make a worker per scan, a scan never
\* releases more workers than it made, and when it has ended (the step
\* that clears the busy flag) every worker it made has been released.
C29_ScanWorkerReleased ==
  variant \notin SharedWorker =>
    /\ \A t \in AllScans : t.terminated <= t.created
    /\ last.op = "scanEnd" => last.task.terminated = last.task.created

====
